---- MODULE Spec2Model ----
(***************************************************************************)
(* Model of the Simple_Parser pattern engine: the recursive-descent        *)
(* compiler (Parser.cpp), the AST node matchers (Nodes.h) and the search   *)
(* driver and caller (main.cpp).                                           *)
(*                                                                         *)
(* Strings are sequences of one-character strings.  A cursor position is   *)
(* the number of characters already consumed (0-based, as in the source).  *)
(***************************************************************************)
EXTENDS Integers, Sequences, FiniteSets, TLC

----------------------------------------------------------------------------
(* Bounds of the model *)

\* patterns of every length up to MaxPatLen over PatChars are enumerated
MaxPatLen == 3
\* texts of every length up to MaxTextLen over TextChars are enumerated
MaxTextLen == 2
\* number of compilations (parsePattern calls) made in one process
MaxRuns == 2

----------------------------------------------------------------------------
(* Characters *)

NUL == ""
Digits == {"0", "1", "2", "3", "4", "5", "6", "7", "8", "9"}
Special == {"+", "*", "(", ")", ".", "{", "}", "\\"}
IntMax == 2147483647
npos == -1

DigitVal(c) ==
  CASE c = "0" -> 0 [] c = "1" -> 1 [] c = "2" -> 2 [] c = "3" -> 3
    [] c = "4" -> 4 [] c = "5" -> 5 [] c = "6" -> 6 [] c = "7" -> 7
    [] c = "8" -> 8 [] c = "9" -> 9

isdigit(c) == c \in Digits

tolower(c) ==
  CASE c = "A" -> "a" [] c = "B" -> "b" [] c = "C" -> "c" [] c = "I" -> "i"
    [] c = "O" -> "o" [] c = "X" -> "x" [] OTHER -> c

\* std::stoi on a non-empty digit string: the value, or -1 when it does not
\* fit an int (std::out_of_range is thrown, and nobody catches it)
RECURSIVE stoiFrom(_, _, _)
stoiFrom(digits, i, acc) ==
  IF i > Len(digits) THEN acc
  ELSE IF acc > (IntMax - DigitVal(digits[i])) \div 10 THEN -1
  ELSE stoiFrom(digits, i + 1, acc * 10 + DigitVal(digits[i]))

stoi(digits) == stoiFrom(digits, 1, 0)

----------------------------------------------------------------------------
(* Bind(v, F) is F(v) with v evaluated once: the result of a call is bound *)
(* before the code that follows the call uses it.                          *)

Bind(v, F(_)) == CHOOSE y \in {F(x) : x \in {v}} : TRUE

----------------------------------------------------------------------------
(* Cursor *)

end(s, pos) == pos >= Len(s)
current(s, pos) == IF end(s, pos) THEN NUL ELSE s[pos + 1]
matchChar(s, pos, c) == ~end(s, pos) /\ current(s, pos) = c

----------------------------------------------------------------------------
(* AST nodes.  Every node is a record of one shape; kids holds the child   *)
(* pointers (a Null node stands for a null shared_ptr), n the group index  *)
(* or the repetition count.  closeAt is auxiliary: the cursor position     *)
(* just after the ')' whose parsing built a group node.                    *)

Node(kind, ch, kids, n, closeAt) ==
  [kind |-> kind, ch |-> ch, kids |-> kids, n |-> n, closeAt |-> closeAt]

Null == Node("Null", NUL, <<>>, 0, 0)
CharacterNode(c) == Node("Char", c, <<>>, 0, 0)
DotNode == Node("Dot", NUL, <<>>, 0, 0)
SequenceNode(children) == Node("Seq", NUL, children, 0, 0)
OrNode(left, right) == Node("Or", NUL, <<left, right>>, 0, 0)
GroupNode(subExpr, index, closeAt) == Node("Group", NUL, <<subExpr>>, index, closeAt)
StarNode(subExpr) == Node("Star", NUL, <<subExpr>>, 0, 0)
CountNode(subExpr, n) == Node("Count", NUL, <<subExpr>>, n, 0)
IgnoreCaseNode(subExpr) == Node("IgnoreCase", NUL, <<subExpr>>, 0, 0)

----------------------------------------------------------------------------
(* Parser.  Every parse function returns the node (or Null), the cursor    *)
(* position it leaves, the value of the static groupCounter, and thrown =  *)
(* TRUE when std::stoi threw inside it.                                    *)

PR(node, pos, gc, thrown) == [node |-> node, pos |-> pos, gc |-> gc, thrown |-> thrown]

RECURSIVE skipDigits(_, _)
skipDigits(s, pos) ==
  IF ~end(s, pos) /\ isdigit(current(s, pos)) THEN skipDigits(s, pos + 1) ELSE pos

parseCount(base, s, pos, gc) ==
  IF matchChar(s, pos, "*") THEN PR(StarNode(base), pos + 1, gc, FALSE)
  ELSE IF ~end(s, pos) /\ current(s, pos) = "{" THEN
    Bind(skipDigits(s, pos + 1), LAMBDA p2 :
      Bind(SubSeq(s, pos + 2, p2), LAMBDA digits :
        IF ~matchChar(s, p2, "}") THEN PR(Null, p2, gc, FALSE)
        ELSE IF digits = <<>> THEN PR(Null, p2 + 1, gc, FALSE)
        ELSE Bind(stoi(digits), LAMBDA n :
          IF n < 0 THEN PR(Null, p2 + 1, gc, TRUE)
          ELSE PR(CountNode(base, n), p2 + 1, gc, FALSE))))
  ELSE PR(Null, pos, gc, FALSE)

parseIgnoreCase(base, s, pos, gc) ==
  IF ~end(s, pos) /\ current(s, pos) = "\\"
     /\ ~end(s, pos + 1) /\ current(s, pos + 1) \in {"I", "i"}
  THEN PR(IgnoreCaseNode(base), pos + 2, gc, FALSE)
  ELSE PR(Null, pos, gc, FALSE)

\* the "expanded = parseCount(...); expanded = parseIgnoreCase(...)" tail
\* shared by parseFactor and parseGroup
parseSuffix(base, s, pos, gc) ==
  Bind(parseCount(base, s, pos, gc), LAMBDA c :
    IF c.thrown THEN c
    ELSE Bind(IF c.node # Null THEN c.node ELSE base, LAMBDA b1 :
      Bind(parseIgnoreCase(b1, s, c.pos, gc), LAMBDA i :
        PR(IF i.node # Null THEN i.node ELSE b1, i.pos, gc, FALSE))))

RECURSIVE parseExpr(_, _, _)
RECURSIVE parseExprLoop(_, _, _, _)
RECURSIVE parseTermLoop(_, _, _, _)
RECURSIVE parseFactor(_, _, _)
RECURSIVE parseGroup(_, _, _)

\* parseGroup gone wrong: the index is taken when the group opens
parseGroupOpeningOrder(s, pos, gc) ==
  Bind(parseExpr(s, pos, gc + 1), LAMBDA e :
    IF e.thrown THEN e
    ELSE IF ~matchChar(s, e.pos, ")") THEN PR(Null, e.pos, e.gc, FALSE)
    ELSE parseSuffix(GroupNode(e.node, gc, e.pos + 1), s, e.pos + 1, e.gc))

parseGroup(s, pos, gc) ==
  Bind(parseExpr(s, pos, gc), LAMBDA e :
    IF e.thrown THEN e
    ELSE IF ~matchChar(s, e.pos, ")") THEN PR(Null, e.pos, e.gc, FALSE)
    ELSE parseSuffix(GroupNode(e.node, e.gc, e.pos + 1), s, e.pos + 1, e.gc + 1))

parseFactor(s, pos, gc) ==
  IF matchChar(s, pos, "(") THEN parseGroup(s, pos + 1, gc)
  ELSE IF ~end(s, pos) /\ current(s, pos) = "." THEN
    parseSuffix(DotNode, s, pos + 1, gc)
  ELSE IF ~end(s, pos) /\ current(s, pos) \notin Special THEN
    parseSuffix(CharacterNode(current(s, pos)), s, pos + 1, gc)
  ELSE PR(Null, pos, gc, FALSE)

parseTermLoop(s, pos, gc, children) ==
  Bind(parseFactor(s, pos, gc), LAMBDA f :
    IF f.thrown THEN f
    ELSE IF f.node = Null THEN
      IF children # <<>> THEN PR(SequenceNode(children), f.pos, f.gc, FALSE)
      ELSE PR(Null, f.pos, f.gc, FALSE)
    ELSE Bind(Append(children, f.node), LAMBDA grown :
      parseTermLoop(s, f.pos, f.gc, grown)))

parseTerm(s, pos, gc) == parseTermLoop(s, pos, gc, <<>>)

parseExprLoop(s, pos, gc, left) ==
  IF matchChar(s, pos, "+") THEN
    Bind(parseTerm(s, pos + 1, gc), LAMBDA right :
      IF right.thrown \/ right.node = Null THEN right
      ELSE Bind(OrNode(left, right.node), LAMBDA or :
        parseExprLoop(s, right.pos, right.gc, or)))
  ELSE PR(left, pos, gc, FALSE)

parseExpr(s, pos, gc) ==
  Bind(parseTerm(s, pos, gc), LAMBDA left :
    IF left.thrown \/ left.node = Null THEN left
    ELSE parseExprLoop(s, left.pos, left.gc, left.node))

\* parsePattern gone wrong: the directive is taken without its closing '}'
parsePatternNoBrace(s, gc, ogi) ==
  Bind(parseExpr(s, 0, gc), LAMBDA e :
    LET p == e.pos
        p3 == skipDigits(s, p + 3)
        digits == SubSeq(s, p + 4, p3)
        wellFormed == /\ ~e.thrown
                      /\ ~end(s, p) /\ current(s, p) = "\\"
                      /\ ~end(s, p + 1) /\ current(s, p + 1) \in {"O", "o"}
                      /\ ~end(s, p + 2) /\ current(s, p + 2) = "{"
                      /\ digits # <<>>
    IN [ast |-> e.node, gc |-> e.gc, exprEnd |-> p,
        pos |-> IF wellFormed THEN p3 ELSE p,
        ogi |-> IF wellFormed /\ stoi(digits) >= 0 THEN stoi(digits) ELSE ogi,
        thrown |-> e.thrown \/ (wellFormed /\ stoi(digits) < 0)])

\* parsePattern: the AST, the final cursor, groupCounter, outputGroupIndex
\* (ogi is the caller's value on entry), and the cursor after parseExpr
parsePattern(s, gc, ogi) ==
  Bind(parseExpr(s, 0, gc), LAMBDA e :
    LET p == e.pos
        p3 == skipDigits(s, p + 3)
        digits == SubSeq(s, p + 4, p3)
        wellFormed == /\ ~e.thrown
                      /\ ~end(s, p) /\ current(s, p) = "\\"
                      /\ ~end(s, p + 1) /\ current(s, p + 1) \in {"O", "o"}
                      /\ ~end(s, p + 2) /\ current(s, p + 2) = "{"
                      /\ digits # <<>> /\ matchChar(s, p3, "}")
    IN [ast |-> e.node, gc |-> e.gc, exprEnd |-> p,
        pos |-> IF wellFormed THEN p3 + 1 ELSE p,
        ogi |-> IF wellFormed /\ stoi(digits) >= 0 THEN stoi(digits) ELSE ogi,
        thrown |-> e.thrown \/ (wellFormed /\ stoi(digits) < 0)])

----------------------------------------------------------------------------
(* Match context and capture table.  An optional<CaptureGroup> is a        *)
(* sequence of at most one CaptureGroup; captures[k] of the source is      *)
(* caps[k + 1] here.                                                       *)

nullopt == <<>>
CaptureGroup(startIndex, endIndex) ==
  <<[startIndex |-> startIndex, endIndex |-> endIndex, valid |-> TRUE]>>

\* std::vector::resize(k, std::nullopt)
resize(caps, k) ==
  IF Len(caps) >= k THEN SubSeq(caps, 1, k)
  ELSE caps \o [i \in 1..(k - Len(caps)) |-> nullopt]

\* What calling match() through a null shared_ptr may do (undefined
\* behaviour): fault, or come back with either answer, the context untouched.
NullCallOutcomes == {"crash", "true", "false"}

\* MatchContext, plus the bookkeeping of the model: ok is the value the last
\* match() returned, st is "run" while the process is alive ("crash" after a
\* fault, "hang" inside a loop that cannot end), ub records that a null
\* child was called, trace is the list of calls and returns so far.
MatchContext(position, captures) ==
  [pos |-> position, caps |-> captures, ic |-> FALSE,
   ok |-> FALSE, st |-> "run", ub |-> FALSE, trace |-> <<>>]

atEnd(text, c) == c.pos >= Len(text)
currentChar(text, c) == IF atEnd(text, c) THEN NUL ELSE text[c.pos + 1]

Ret(c, ok) == [c EXCEPT !.ok = ok]
Event(ev, path, kind, pos, ok) ==
  [ev |-> ev, path |-> path, kind |-> kind, pos |-> pos, ok |-> ok]

CharacterNodeMatch(n, text, c) ==
  IF atEnd(text, c) THEN Ret(c, FALSE)
  ELSE IF c.ic THEN
    IF tolower(currentChar(text, c)) = tolower(n.ch)
    THEN [c EXCEPT !.pos = @ + 1, !.ok = TRUE] ELSE Ret(c, FALSE)
  ELSE IF currentChar(text, c) = n.ch
    THEN [c EXCEPT !.pos = @ + 1, !.ok = TRUE] ELSE Ret(c, FALSE)

DotNodeMatch(text, c) ==
  IF atEnd(text, c) THEN Ret(c, FALSE) ELSE [c EXCEPT !.pos = @ + 1, !.ok = TRUE]

NullMatch(oracle, c) ==
  IF oracle = "crash" THEN [c EXCEPT !.st = "crash", !.ub = TRUE]
  ELSE [c EXCEPT !.ok = (oracle = "true"), !.ub = TRUE]

RECURSIVE match(_, _, _, _, _)
RECURSIVE SequenceNodeLoop(_, _, _, _, _, _, _)
RECURSIVE StarNodeLoop(_, _, _, _, _, _)
RECURSIVE CountNodeLoop(_, _, _, _, _, _, _)

SequenceNodeLoop(n, i, savedPos, path, text, oracle, c) ==
  IF i > Len(n.kids) THEN Ret(c, TRUE)
  ELSE Bind(match(n.kids[i], Append(path, i), text, oracle, c), LAMBDA r :
         IF r.st # "run" THEN r
         ELSE IF ~r.ok THEN [r EXCEPT !.pos = savedPos, !.ok = FALSE]
         ELSE SequenceNodeLoop(n, i + 1, savedPos, path, text, oracle, r))

\* SequenceNodeMatch gone wrong: a failure rolls the capture table back too
SequenceNodeMatchTransactional(n, path, text, oracle, c) ==
  Bind(SequenceNodeLoop(n, 1, c.pos, path, text, oracle, c), LAMBDA r :
    IF r.st = "run" /\ ~r.ok THEN [r EXCEPT !.caps = c.caps] ELSE r)

SequenceNodeMatch(n, path, text, oracle, c) ==
  SequenceNodeLoop(n, 1, c.pos, path, text, oracle, c)

\* OrNodeMatch gone wrong: after a left success the right branch is run too
\* and wins when it succeeds
OrNodeMatchBoth(n, path, text, oracle, c) ==
  LET savedPos == c.pos
  IN Bind(match(n.kids[1], Append(path, 1), text, oracle, c), LAMBDA l :
       IF l.st # "run" THEN l
       ELSE Bind([l EXCEPT !.pos = savedPos], LAMBDA reverted :
         Bind(match(n.kids[2], Append(path, 2), text, oracle, reverted), LAMBDA r :
           IF r.st # "run" THEN r
           ELSE IF r.ok \/ ~l.ok THEN r
           ELSE [r EXCEPT !.pos = l.pos, !.ok = TRUE])))

OrNodeMatch(n, path, text, oracle, c) ==
  LET savedPos == c.pos
  IN Bind(match(n.kids[1], Append(path, 1), text, oracle, c), LAMBDA l :
       IF l.st # "run" THEN l
       ELSE IF l.ok THEN Ret(l, TRUE)
       ELSE Bind([l EXCEPT !.pos = savedPos], LAMBDA reverted :
         match(n.kids[2], Append(path, 2), text, oracle, reverted)))

\* GroupNodeMatch gone wrong: a slot that holds a span is left alone
GroupNodeMatchWriteOnce(n, path, text, oracle, c) ==
  LET startPos == c.pos
  IN Bind(match(n.kids[1], Append(path, 1), text, oracle, c), LAMBDA r :
       LET endPos == r.pos
           sized == IF n.n >= Len(r.caps) THEN resize(r.caps, n.n + 1) ELSE r.caps
       IN IF r.st # "run" THEN r
          ELSE IF ~r.ok THEN Ret(r, FALSE)
          ELSE IF n.n >= 0 /\ sized[n.n + 1] = nullopt
            THEN [r EXCEPT !.caps = [sized EXCEPT ![n.n + 1] = CaptureGroup(startPos, endPos)],
                           !.ok = TRUE]
            ELSE [r EXCEPT !.caps = sized, !.ok = TRUE])

GroupNodeMatch(n, path, text, oracle, c) ==
  LET startPos == c.pos
  IN Bind(match(n.kids[1], Append(path, 1), text, oracle, c), LAMBDA r :
       LET endPos == r.pos
           sized == IF n.n >= Len(r.caps) THEN resize(r.caps, n.n + 1) ELSE r.caps
       IN IF r.st # "run" THEN r
          ELSE IF ~r.ok THEN Ret(r, FALSE)
          ELSE IF n.n >= 0
            THEN [r EXCEPT !.caps = [sized EXCEPT ![n.n + 1] = CaptureGroup(startPos, endPos)],
                           !.ok = TRUE]
            ELSE Ret(r, TRUE))

\* One pass of the while(true) loop.  An iteration that succeeds without
\* moving position is repeated identically for ever (the child's answer
\* depends only on text, position and ignoreCase): the process hangs.
\* StarNodeLoop gone wrong: zero repetitions are accepted
StarNodeLoopZeroOrMore(n, count, path, text, oracle, c) ==
  LET savedPos == c.pos
  IN Bind(match(n.kids[1], Append(path, 1), text, oracle, c), LAMBDA r :
       IF r.st # "run" THEN r
       ELSE IF ~r.ok THEN [r EXCEPT !.pos = savedPos, !.ok = (count >= 0)]
       ELSE IF r.pos = savedPos THEN [r EXCEPT !.st = "hang"]
       ELSE StarNodeLoop(n, count + 1, path, text, oracle, r))

StarNodeLoop(n, count, path, text, oracle, c) ==
  LET savedPos == c.pos
  IN Bind(match(n.kids[1], Append(path, 1), text, oracle, c), LAMBDA r :
       IF r.st # "run" THEN r
       ELSE IF ~r.ok THEN [r EXCEPT !.pos = savedPos, !.ok = (count >= 1)]
       ELSE IF r.pos = savedPos THEN [r EXCEPT !.st = "hang"]
       ELSE StarNodeLoop(n, count + 1, path, text, oracle, r))

StarNodeMatch(n, path, text, oracle, c) == StarNodeLoop(n, 0, path, text, oracle, c)

CountNodeLoop(n, i, savedPos, path, text, oracle, c) ==
  IF ~(i < n.n) THEN Ret(c, TRUE)
  ELSE Bind(match(n.kids[1], Append(path, 1), text, oracle, c), LAMBDA r :
         IF r.st # "run" THEN r
         ELSE IF ~r.ok THEN [r EXCEPT !.pos = savedPos, !.ok = FALSE]
         ELSE CountNodeLoop(n, i + 1, savedPos, path, text, oracle, r))

CountNodeMatch(n, path, text, oracle, c) ==
  CountNodeLoop(n, 0, c.pos, path, text, oracle, c)

IgnoreCaseNodeMatch(n, path, text, oracle, c) ==
  LET savedFlag == c.ic
  IN Bind([c EXCEPT !.ic = TRUE], LAMBDA scoped :
       Bind(match(n.kids[1], Append(path, 1), text, oracle, scoped), LAMBDA r :
         IF r.st # "run" THEN r ELSE [r EXCEPT !.ic = savedFlag]))

\* the virtual call node->match(ctx), with the call and its return logged
match(n, path, text, oracle, c) ==
  Bind([c EXCEPT !.trace = Append(@, Event("call", path, n.kind, c.pos, FALSE))],
       LAMBDA c1 :
    Bind(CASE n.kind = "Null" -> NullMatch(oracle, c1)
           [] n.kind = "Char" -> CharacterNodeMatch(n, text, c1)
           [] n.kind = "Dot" -> DotNodeMatch(text, c1)
           [] n.kind = "Seq" -> SequenceNodeMatch(n, path, text, oracle, c1)
           [] n.kind = "Or" -> OrNodeMatch(n, path, text, oracle, c1)
           [] n.kind = "Group" -> GroupNodeMatch(n, path, text, oracle, c1)
           [] n.kind = "Star" -> StarNodeMatch(n, path, text, oracle, c1)
           [] n.kind = "Count" -> CountNodeMatch(n, path, text, oracle, c1)
           [] n.kind = "IgnoreCase" -> IgnoreCaseNodeMatch(n, path, text, oracle, c1),
         LAMBDA r :
      IF r.st # "run" THEN r
      ELSE [r EXCEPT !.trace = Append(@, Event("ret", path, n.kind, r.pos, r.ok))]))

----------------------------------------------------------------------------
(* Inputs *)

PatChars == {"a", "b", "(", ")", "+", "*", "{", "}"}
TextChars == {"a", "b"}

Strings(chars, maxLen) == UNION {[1..k -> chars] : k \in 0..maxLen}

\* longer patterns worth a run of their own
LongPatterns ==
  { <<"(", "(", "a", ")", "b", ")">>,
    <<"(", "a", "+", "a", "b", ")", "c">>,
    <<"(", "a", ")", "x", "+", "a">>,
    <<"(", "a", ")", "(", "b", ")", "\\", "O", "{", "1", "}">>,
    <<"(", "a", "{", "0", "}", ")", "*">>,
    <<"(", "a", ")", "*">>,
    <<"(", "a", "+", ")">>,
    <<"b", "(", "a">>,
    <<"a", "{", "3", "}">>,
    <<"A", "\\", "I", "b">>,
    <<"A", "\\", "i">>,
    <<"a", "{", "2", "}">>,
    <<"a", "\\", "O", "{", "}">>,
    <<"a", "\\", "o", "{", "1", "2", "}">>,
    <<"a", "\\", "O", "{", "1">>,
    <<"a", "\\", "O", "{", "2", "1", "4", "7", "4", "8", "3", "6", "4", "8", "}">>,
    <<"a", "{", "2", "1", "4", "7", "4", "8", "3", "6", "4", "8", "}">>,
    <<"(", "a", ")", "(", "(", "b", ")", "a", ")">>,
    <<"a", "{", "0", "}">>,
    <<"\\", "O", "{", "1", "}">>,
    <<"a", "\\", "O", "{", "0", "1", "}">>,
    <<"a", "\\", "O", "{", "1", "}", "b">>,
    <<"a", "\\", "O", "1", "}">>,
    <<"a", "\\", "O">>,
    <<"(", "a", ")", "\\", "I", "\\", "O", "{", "1", "}">>,
    <<".">>, <<".", "*">>, <<"a", ".">>, <<"(", ".", ")", "b">>, <<".", "{", "2", "}">>,
    <<"a", "\\">>, <<"\\", "I">>, <<"a", "\\", "I">>, <<"a", "*", "\\", "i">>,
    <<".", "\\", "I", "\\", "I">>, <<"a", "{", "0">>, <<"a", "0", "}">>,
    <<"(", "a", "b", ")", "{", "2", "}">>, <<"b", "{", "0", "}", "a">>,
    <<"(", "a", "+", "b", ")", "*", "b">>, <<"(", "(", "a", ")", "*", "b", ")", "*">> }

LongTexts ==
  { <<"a", "a", "a", "b">>, <<"a", "b", "c">>, <<"A", "b">>, <<"x", "a", "b", "a">> }

Patterns == Strings(PatChars, MaxPatLen) \cup LongPatterns
Texts == Strings(TextChars, MaxTextLen) \cup LongTexts

----------------------------------------------------------------------------
(* The process: main() around parsePattern and findMatch, repeated up to   *)
(* MaxRuns times on the same pattern and text to observe the static        *)
(* groupCounter across compilations.                                       *)

VARIABLES
  pattern,       \* argv[1]
  text,          \* the input text
  pc,            \* "start", "parsed", "search", "found", "done", "abort", "crash", "hang"
  run,           \* number of the current compilation, from 1
  groupCounter,  \* static int groupCounter
  ast,           \* what parsePattern returned
  outputGroup,   \* main's outputGroup
  cursor,        \* cur.pos when parsePattern returned
  exprEnd,       \* cur.pos when parseExpr returned inside parsePattern
  start,         \* findMatch's loop variable
  captures,      \* main's captures vector
  result,        \* what findMatch returned (npos = -1)
  last,          \* the match context of the latest attempt, as match() left it
  ub,            \* a null child has been called during this run
  output,        \* the line printed, as a sequence of 0 or 1 strings
  outcome,       \* "compile error", "no match", "match" once main has returned
  history        \* the summaries of the finished runs

vars == <<pattern, text, pc, run, groupCounter, ast, outputGroup, cursor, exprEnd,
          start, captures, result, last, ub, output, outcome, history>>

NoText == <<"?">>

Init ==
  /\ pattern \in Patterns
  /\ text = NoText
  /\ pc = "start"
  /\ run = 1
  /\ groupCounter = 1
  /\ ast = Null
  /\ outputGroup = 0
  /\ cursor = 0
  /\ exprEnd = 0
  /\ start = 0
  /\ captures = <<>>
  /\ result = npos
  /\ last = MatchContext(0, <<>>)
  /\ ub = FALSE
  /\ output = <<>>
  /\ outcome = "none"
  /\ history = <<>>

\* main: int outputGroup = 0; auto ast = parsePattern(pattern, outputGroup);
Compile ==
  /\ pc = "start"
  /\ \E r \in {parsePattern(pattern, groupCounter, 0)} :
        /\ groupCounter' = r.gc
        /\ IF r.thrown
           THEN /\ pc' = "abort"
                /\ UNCHANGED <<ast, outputGroup, cursor, exprEnd>>
           ELSE /\ pc' = "parsed"
                /\ ast' = r.ast
                /\ outputGroup' = r.ogi
                /\ cursor' = r.pos
                /\ exprEnd' = r.exprEnd
  /\ UNCHANGED <<pattern, text, run, start, captures, result, last, ub, output,
                 outcome, history>>

\* main: if (!ast) return EXIT_FAILURE;
CompileError ==
  /\ pc = "parsed"
  /\ ast = Null
  /\ pc' = "done"
  /\ outcome' = "compile error"
  /\ UNCHANGED <<pattern, text, run, groupCounter, ast, outputGroup, cursor, exprEnd,
                 start, captures, result, last, ub, output, history>>

\* findMatch gone wrong: the search starts at offset 1
FindMatchEnterAtOne ==
  /\ pc = "parsed"
  /\ ast # Null
  /\ \E t \in Texts :
       /\ (text # NoText) => (t = text)
       /\ text' = t
  /\ captures' = <<>>
  /\ start' = 1
  /\ pc' = "search"
  /\ UNCHANGED <<pattern, run, groupCounter, ast, outputGroup, cursor, exprEnd,
                 result, last, ub, output, outcome, history>>

\* main: std::vector<...> captures; findMatch(ast, input, captures): entry
FindMatchEnter ==
  /\ pc = "parsed"
  /\ ast # Null
  /\ \E t \in Texts :
       /\ (text # NoText) => (t = text)
       /\ text' = t
  /\ captures' = <<>>
  /\ start' = 0
  /\ pc' = "search"
  /\ UNCHANGED <<pattern, run, groupCounter, ast, outputGroup, cursor, exprEnd,
                 result, last, ub, output, outcome, history>>

\* findMatch: one pass of the for loop
FindMatchAttempt ==
  /\ pc = "search"
  /\ start <= Len(text)
  /\ \E oracle \in NullCallOutcomes :
     \E ctx \in {MatchContext(start, resize(captures, 1))} :
     \E r \in {match(ast, <<>>, text, oracle, ctx)} :
       LET savedPos == ctx.pos
       IN /\ last' = r
          /\ ub' = (ub \/ r.ub)
          /\ IF r.st # "run"
             THEN /\ pc' = r.st
                  /\ UNCHANGED <<start, captures, result>>
             ELSE IF r.ok
             THEN /\ captures' = IF r.caps[1] = nullopt
                                 THEN [r.caps EXCEPT ![1] = CaptureGroup(savedPos, r.pos)]
                                 ELSE r.caps
                  /\ result' = savedPos
                  /\ pc' = "found"
                  /\ UNCHANGED start
             ELSE /\ start' = start + 1
                  /\ UNCHANGED <<pc, captures, result>>
  /\ UNCHANGED <<pattern, text, run, groupCounter, ast, outputGroup, cursor, exprEnd,
                 output, outcome, history>>

\* findMatch: return std::string::npos; main: return EXIT_FAILURE
FindMatchExhausted ==
  /\ pc = "search"
  /\ ~(start <= Len(text))
  /\ result' = npos
  /\ pc' = "done"
  /\ outcome' = "no match"
  /\ UNCHANGED <<pattern, text, run, groupCounter, ast, outputGroup, cursor, exprEnd,
                 start, captures, last, ub, output, history>>

substr(s, from, length) == SubSeq(s, from + 1, from + length)

\* main: print the requested group, if it is there
PrintGroup ==
  /\ pc = "found"
  /\ output' = IF outputGroup >= Len(captures) \/ captures[outputGroup + 1] = nullopt
               THEN <<>>
               ELSE LET cg == captures[outputGroup + 1][1]
                    IN <<substr(text, cg.startIndex, cg.endIndex - cg.startIndex)>>
  /\ pc' = "done"
  /\ outcome' = "match"
  /\ UNCHANGED <<pattern, text, run, groupCounter, ast, outputGroup, cursor, exprEnd,
                 start, captures, result, last, ub, history>>

Summary ==
  [ast |-> ast, outputGroup |-> outputGroup, result |-> result,
   captures |-> captures, output |-> output, outcome |-> outcome, ub |-> ub]

\* the same pattern is compiled again in the same process: groupCounter is
\* static and keeps its value
CompileAgain ==
  /\ pc = "done"
  /\ run < MaxRuns
  /\ run' = run + 1
  /\ history' = Append(history, Summary)
  /\ pc' = "start"
  /\ ast' = Null
  /\ outputGroup' = 0
  /\ cursor' = 0
  /\ exprEnd' = 0
  /\ start' = 0
  /\ captures' = <<>>
  /\ result' = npos
  /\ last' = MatchContext(0, <<>>)
  /\ ub' = FALSE
  /\ output' = <<>>
  /\ outcome' = "none"
  /\ UNCHANGED <<pattern, text, groupCounter>>

Next ==
  \/ Compile
  \/ CompileError
  \/ FindMatchEnter
  \/ FindMatchAttempt
  \/ FindMatchExhausted
  \/ PrintGroup
  \/ CompileAgain

Spec == Init /\ [][Next]_vars

----------------------------------------------------------------------------
(* Properties *)

Count(s, c) == Cardinality({i \in 1..Len(s) : s[i] = c})

\* the kinds of grammar violation, read off the pattern string alone
UnmatchedOpen(p) == Count(p, "(") > Count(p, ")")
QuantNoDigits(p) ==
  \E i \in 2..(Len(p) - 1) :
    /\ p[i] = "{" /\ p[i + 1] = "}"
    /\ ~(i >= 3 /\ p[i - 2] = "\\" /\ p[i - 1] \in {"O", "o"})
DanglingPlus(p) ==
  \E i \in 1..Len(p) : p[i] = "+" /\ (i = Len(p) \/ p[i + 1] = ")")
EmptyGroup(p) == \E i \in 1..(Len(p) - 1) : p[i] = "(" /\ p[i + 1] = ")"

\* parsePattern has returned to main
Parsed == pc = "parsed"

\* C1: parsePattern returns no AST for a pattern with an unmatched '(', a
\* '{' quantifier without digits, a dangling '+' (also just before ')') or
\* an empty group, wherever in the pattern the violation is.
C1_ViolationRejected ==
  (Parsed /\ (UnmatchedOpen(pattern) \/ QuantNoDigits(pattern)
              \/ DanglingPlus(pattern) \/ EmptyGroup(pattern)))
    => ast = Null

\* C3: no run reaches a crash: neither a call through a null child nor an
\* uncaught exception of the numeric conversion.
C3_NoCrash == pc \notin {"crash", "abort"}

\* C6: whenever parsePattern returns an AST the cursor is at the end of the
\* pattern string.
C6_PatternConsumed == (Parsed /\ ast # Null) => cursor = Len(pattern)

\* main has returned from a run in which no null child was called
Finished == pc = "done" /\ ~ub

\* C4: compiling the same pattern again in the same process gives an AST
\* with the same match result on the same text: same start offset, same
\* capture table, same extracted substring.
C4_RecompileSameResult ==
  (Finished /\ run >= 2 /\ ~history[run - 1].ub)
    => /\ history[run - 1].outcome = outcome
       /\ history[run - 1].result = result
       /\ history[run - 1].captures = captures
       /\ history[run - 1].output = output

----------------------------------------------------------------------------
(* The grammar of section 4.1 / Parser.h, as a recogniser over substrings *)

Sub(p, i, j) == SubSeq(p, i, j)

IsDigits(p) == p # <<>> /\ \A i \in 1..Len(p) : p[i] \in Digits
IsQuant(p) ==
  \/ p = <<"*">>
  \/ Len(p) >= 3 /\ p[1] = "{" /\ p[Len(p)] = "}" /\ IsDigits(Sub(p, 2, Len(p) - 1))
IsCaseMod(p) == Len(p) = 2 /\ p[1] = "\\" /\ p[2] \in {"I", "i"}
IsOutput(p) ==
  /\ Len(p) >= 5 /\ p[1] = "\\" /\ p[2] \in {"O", "o"} /\ p[3] = "{"
  /\ p[Len(p)] = "}" /\ IsDigits(Sub(p, 4, Len(p) - 1))

RECURSIVE IsExpr(_)
RECURSIVE IsTerm(_)
RECURSIVE IsFactor(_)
RECURSIVE IsAtom(_)

IsAtom(p) ==
  \/ Len(p) = 1 /\ (p[1] = "." \/ p[1] \notin Special)
  \/ Len(p) >= 3 /\ p[1] = "(" /\ p[Len(p)] = ")" /\ IsExpr(Sub(p, 2, Len(p) - 1))

\* FACTOR := ATOM QUANT? CASEMOD?
IsFactor(p) ==
  \E i \in 1..Len(p) : \E j \in i..Len(p) :
    /\ i = j \/ IsQuant(Sub(p, i + 1, j))
    /\ j = Len(p) \/ IsCaseMod(Sub(p, j + 1, Len(p)))
    /\ IsAtom(Sub(p, 1, i))

\* TERM := FACTOR+
IsTerm(p) ==
  \/ IsFactor(p)
  \/ \E i \in 1..(Len(p) - 1) : IsFactor(Sub(p, i + 1, Len(p))) /\ IsTerm(Sub(p, 1, i))

\* EXPR := TERM ('+' TERM)*
IsExpr(p) ==
  \/ IsTerm(p)
  \/ \E i \in 2..(Len(p) - 1) :
       p[i] = "+" /\ IsTerm(Sub(p, i + 1, Len(p))) /\ IsExpr(Sub(p, 1, i - 1))

\* PATTERN := EXPR OUTPUT?
IsPattern(p) ==
  \/ IsExpr(p)
  \/ \E i \in 1..(Len(p) - 1) : IsOutput(Sub(p, i + 1, Len(p))) /\ IsExpr(Sub(p, 1, i))

----------------------------------------------------------------------------

\* every node of the tree under n, with its path from the root
RECURSIVE SubNodes(_, _)
SubNodes(n, path) ==
  {[path |-> path, node |-> n]}
    \cup UNION {SubNodes(n.kids[i], Append(path, i)) : i \in 1..Len(n.kids)}

Groups(n) == {x \in SubNodes(n, <<>>) : x.node.kind = "Group"}

IsProperPrefix(a, b) == Len(a) < Len(b) /\ SubSeq(b, 1, Len(a)) = a

\* number of ')' among the first k characters of p
ClosedBy(p, k) == Cardinality({i \in 1..k : p[i] = ")"})

\* C5: in the first compilation, for a pattern of the grammar, every group
\* has the index given by the rank of its closing ')': the groups are
\* numbered 1, 2, 3, ... in closing order, no index is used twice, and a
\* nested group has a smaller index than the group around it.
C5_GroupsNumberedInClosingOrder ==
  (Parsed /\ run = 1 /\ IsPattern(pattern))
    => /\ ast # Null
       /\ \A g \in Groups(ast) :
            /\ pattern[g.node.closeAt] = ")"
            /\ g.node.n = ClosedBy(pattern, g.node.closeAt)
       /\ {g.node.n : g \in Groups(ast)} = 1..Count(pattern, ")")
       /\ Cardinality(Groups(ast)) = Count(pattern, ")")
       /\ \A g, h \in Groups(ast) :
            /\ (g.path # h.path) => (g.node.n # h.node.n)
            /\ IsProperPrefix(h.path, g.path) => (g.node.n < h.node.n)

\* "((a)b)": the inner group is 1 and the outer group is 2
C5_Witness ==
  /\ Parsed /\ run = 1
  /\ pattern = <<"(", "(", "a", ")", "b", ")">>
  /\ \E g, h \in Groups(ast) :
       IsProperPrefix(h.path, g.path) /\ g.node.n = 1 /\ h.node.n = 2

----------------------------------------------------------------------------

\* a well-formed output directive with d digits sits at cursor position k
DirectiveAt(p, k, d) ==
  /\ d >= 1 /\ k + 4 + d <= Len(p)
  /\ p[k + 1] = "\\" /\ p[k + 2] \in {"O", "o"} /\ p[k + 3] = "{"
  /\ \A i \in 1..d : p[k + 3 + i] \in Digits
  /\ p[k + 4 + d] = "}"

RECURSIVE Pow10(_)
Pow10(e) == IF e = 0 THEN 1 ELSE 10 * Pow10(e - 1)

\* the number written by the d digits that follow position from
RECURSIVE NumberOf(_, _, _)
NumberOf(p, from, d) ==
  IF d = 0 THEN 0
  ELSE DigitVal(p[from + 1]) * Pow10(d - 1) + NumberOf(p, from + 1, d - 1)

DirectiveLengths == {d \in 1..Len(pattern) : DirectiveAt(pattern, exprEnd, d)}

\* C7: after parsePattern, outputGroupIndex is the number of the well-formed
\* output directive that follows the expression, and 0 when there is none;
\* a malformed directive leaves 0, leaves the cursor on its backslash, and
\* does not change whether an AST is returned.
C7_OutputDirective ==
  Parsed =>
    /\ \A d \in DirectiveLengths :
         /\ outputGroup = NumberOf(pattern, exprEnd + 3, d)
         /\ cursor = exprEnd + 4 + d
    /\ (DirectiveLengths = {}) => (outputGroup = 0 /\ cursor = exprEnd)
    /\ (ast = Null) <=> (parseExpr(pattern, 0, 1).node = Null)

\* a directive that lacks its '}' after a good expression: "a\O{1"
C7_Witness ==
  /\ Parsed /\ ast # Null
  /\ exprEnd + 2 <= Len(pattern)
  /\ exprEnd + 4 <= Len(pattern)
  /\ pattern[exprEnd + 1] = "\\" /\ pattern[exprEnd + 2] \in {"O", "o"}
  /\ pattern[exprEnd + 3] = "{" /\ pattern[exprEnd + 4] \in Digits
  /\ DirectiveLengths = {}
  /\ outputGroup = 0 /\ cursor = exprEnd

----------------------------------------------------------------------------

\* node n (at path) asked to match text from position p in a fresh context
Try(n, path, p, ic) ==
  match(n, path, text, "crash", [MatchContext(p, <<nullopt>>) EXCEPT !.ic = ic])

RootMatchesAt(p) ==
  \E r \in {Try(ast, <<>>, p, FALSE)} : r.st = "run" /\ r.ok

\* findMatch has returned to main
Returned == pc = "found" \/ (pc = "done" /\ outcome \in {"match", "no match"})

IsLiteral(p) == p # <<>> /\ \A i \in 1..Len(p) : p[i] \notin Special
Occurrences(p, t) ==
  {s \in 0..(Len(t) - Len(p)) : SubSeq(t, s + 1, s + Len(p)) = p}
Min(S) == CHOOSE m \in S : \A x \in S : m <= x
Max(S) == CHOOSE m \in S : \A x \in S : m >= x
LeftmostOccurrence(p, t) ==
  IF Occurrences(p, t) = {} THEN npos ELSE Min(Occurrences(p, t))

\* C2: findMatch returns the smallest offset in 0..len(text) at which the
\* root matches from a fresh context, npos exactly when there is none; a
\* literal pattern is found at its leftmost occurrence in the text.
C2_LeftmostMatch ==
  (Returned /\ ~ub) =>
    /\ (result = npos) <=> (\A p \in 0..Len(text) : ~RootMatchesAt(p))
    /\ (result # npos) =>
         /\ result \in 0..Len(text)
         /\ RootMatchesAt(result)
         /\ \A p \in 0..(result - 1) : ~RootMatchesAt(p)
    /\ IsLiteral(pattern) => (result = LeftmostOccurrence(pattern, text))

\* a literal of two characters found after a first offset that fails
C2_Witness ==
  /\ pc = "found" /\ ~ub
  /\ IsLiteral(pattern) /\ Len(pattern) = 2
  /\ result > 0
  /\ Cardinality(Occurrences(pattern, text)) >= 1

\* C8: for every node and every match state, match either succeeds having
\* advanced position or fails with position as it was at entry.
C8_AdvanceOrRestore ==
  (pc \in {"search", "found", "done"}) =>
    \A x \in SubNodes(ast, <<>>) : \A p \in 0..Len(text) : \A ic \in BOOLEAN :
      \E r \in {Try(x.node, x.path, p, ic)} :
        (r.st = "run") => ((r.ok /\ r.pos > p) \/ (~r.ok /\ r.pos = p))

----------------------------------------------------------------------------

Stars(n) == {x \in SubNodes(n, <<>>) : x.node.kind = "Star"}

\* where the inner node of star x gets to from position p, or -1 if it fails
StepOf(x, p, ic) ==
  CHOOSE q \in -1..Len(text) :
    \E r \in {Try(x.node.kids[1], Append(x.path, 1), p, ic)} :
      q = IF r.st = "run" /\ r.ok THEN r.pos ELSE -1

\* Q is a run of consecutive inner successes from p that cannot be extended
IsMaximalRun(x, p, ic, Q) ==
  /\ Q # {}
  /\ \A q \in Q : q > p
  /\ \A q \in Q \cup {p} :
       LET later == {z \in Q : z > q}
       IN StepOf(x, q, ic) = IF later = {} THEN -1 ELSE Min(later)

PatAStar == <<"a", "*">>
PatAStarA == <<"a", "*", "a">>
TextAAAB == <<"a", "a", "a", "b">>

\* C9: a star succeeds iff its inner node matches at least once from the
\* entry position, and then stops after the maximal run of inner successes;
\* within one attempt a star is never entered again at the same or an
\* earlier position; "a*" on "aaab" matches "aaa" at 0; "a*a" never matches.
C9_StarGreedy ==
  /\ (pc \in {"search", "found", "done"}) =>
       \A x \in Stars(ast) : \A p \in 0..Len(text) : \A ic \in BOOLEAN :
         \E r \in {Try(x.node, x.path, p, ic)} :
           (r.st = "run") =>
             /\ r.ok <=> (StepOf(x, p, ic) # -1)
             /\ r.ok => \E Q \in SUBSET ((p + 1)..Len(text)) :
                          IsMaximalRun(x, p, ic, Q) /\ r.pos = Max(Q)
             /\ ~r.ok => r.pos = p
  /\ \A i, j \in 1..Len(last.trace) :
       (/\ i < j
        /\ last.trace[i].ev = "call" /\ last.trace[i].kind = "Star"
        /\ last.trace[j].ev = "call" /\ last.trace[j].path = last.trace[i].path)
         => last.trace[i].pos < last.trace[j].pos
  /\ (Returned /\ pattern = PatAStar /\ text = TextAAAB) =>
       (result = 0 /\ captures[1] = CaptureGroup(0, 3))
  /\ (Returned /\ pattern = PatAStarA) => result = npos

C9_Witness ==
  /\ pc = "found" /\ pattern = PatAStar /\ text = TextAAAB
  /\ result = 0 /\ captures[1] = CaptureGroup(0, 3)

----------------------------------------------------------------------------

IsCall(e, path, pos) == e.ev = "call" /\ e.path = path /\ e.pos = pos
IsRet(e, path) == e.ev = "ret" /\ e.path = path

\* the return that answers the call logged at tr[i], if the call returned
Returns(tr, i) == {j \in (i + 1)..Len(tr) : IsRet(tr[j], tr[i].path)}

PatOrSeq == <<"(", "a", "+", "a", "b", ")", "c">>
TextABC == <<"a", "b", "c">>

\* one invocation of an alternation node, logged from tr[i] on
OrInvocationInOrder(tr, i) ==
  LET path == tr[i].path
      entry == tr[i].pos
      lhs == Append(path, 1)
      rhs == Append(path, 2)
  IN /\ i + 1 <= Len(tr) /\ IsCall(tr[i + 1], lhs, entry)
     /\ Returns(tr, i + 1) # {} =>
          LET j == Min(Returns(tr, i + 1))
          IN /\ j + 1 <= Len(tr)
             /\ IF tr[j].ok
                THEN IsRet(tr[j + 1], path) /\ tr[j + 1].ok /\ tr[j + 1].pos = tr[j].pos
                ELSE IsCall(tr[j + 1], rhs, entry)

\* C10: an alternation calls its left branch first, from the entry
\* position; it calls its right branch only directly after the left branch
\* has failed, and from the entry position; after a left success it returns
\* at once, so that "(a+ab)c" does not match "abc".
C10_LeftBiasedCommit ==
  /\ \A i \in 1..Len(last.trace) :
       LET e == last.trace[i]
       IN /\ (e.ev = "call" /\ e.kind = "Or") => OrInvocationInOrder(last.trace, i)
          /\ (e.ev = "call" /\ i > 1 /\ Len(e.path) > 0
              /\ e.path[Len(e.path)] = 2
              /\ \E k \in 1..(i - 1) :
                   /\ last.trace[k].kind = "Or" /\ last.trace[k].ev = "call"
                   /\ Append(last.trace[k].path, 2) = e.path)
               => /\ last.trace[i - 1].ev = "ret"
                  /\ ~last.trace[i - 1].ok
                  /\ last.trace[i - 1].path = [e.path EXCEPT ![Len(e.path)] = 1]
  /\ (Returned /\ pattern = PatOrSeq /\ text = TextABC) => result = npos

\* offset 0 of "(a+ab)c" on "abc": the alternation has succeeded through its
\* left branch, the sequence around it has failed, the right branch was
\* never called
C10_Witness ==
  /\ pc = "search" /\ start = 1
  /\ pattern = PatOrSeq /\ text = TextABC
  /\ ~last.ok
  /\ \E i \in 1..Len(last.trace) :
       /\ last.trace[i].ev = "ret" /\ last.trace[i].kind = "Or" /\ last.trace[i].ok
       /\ \A k \in 1..Len(last.trace) : last.trace[k].path # Append(last.trace[i].path, 2)

----------------------------------------------------------------------------

Seqs(n) == {x \in SubNodes(n, <<>>) : x.node.kind = "Seq"}

\* the context in which the children of sequence x, called one after the
\* other from child i on, leave off: after the first child that fails, or
\* after the last child
RECURSIVE AfterChildren(_, _, _)
AfterChildren(x, i, c) ==
  IF i > Len(x.node.kids) THEN c
  ELSE Bind(match(x.node.kids[i], Append(x.path, i), text, "crash", c), LAMBDA r :
         IF r.st # "run" \/ ~r.ok THEN r ELSE AfterChildren(x, i + 1, r))

\* the index in tr of the call that the return logged at tr[j] answers
CallOf(tr, j) ==
  Max({i \in 1..(j - 1) : tr[i].ev = "call" /\ tr[i].path = tr[j].path})

\* tr[g] is the successful return of a group inside a sequence whose own
\* return, later in tr, is a failure
AbandonedGroupReturn(tr, g) ==
  /\ tr[g].ev = "ret" /\ tr[g].kind = "Group" /\ tr[g].ok
  /\ \E j \in (g + 1)..Len(tr) :
       /\ tr[j].ev = "ret" /\ tr[j].kind = "Seq" /\ ~tr[j].ok
       /\ IsProperPrefix(tr[j].path, tr[g].path)
       /\ CallOf(tr, j) < CallOf(tr, g)

PatStale == <<"(", "a", ")", "x", "+", "a">>
TextAB == <<"a", "b">>

----------------------------------------------------------------------------

\* the node of the current AST at path
NodeAt(path) == (CHOOSE x \in SubNodes(ast, <<>>) : x.path = path).node

\* the successful returns in tr of the group node that owns slot k: each is
\* one execution of captures[k] = CaptureGroup{startPos, endPos, true}
GroupWrites(tr, k) ==
  {j \in 1..Len(tr) : /\ tr[j].ev = "ret" /\ tr[j].kind = "Group" /\ tr[j].ok
                      /\ NodeAt(tr[j].path).n = k}

\* the span written by the execution that returns at tr[j]
SpanOf(tr, j) == CaptureGroup(tr[CallOf(tr, j)].pos, tr[j].pos)

PatGroupStar == <<"(", "a", ")", "*">>
TextAA == <<"a", "a">>

\* C12 as stated: within one attempt the span of a slot that has been
\* written does not change, also for a group under a star or an exact count.
C12_SlotWrittenOnce ==
  \A k \in 0..(Len(last.caps) - 1) :
    \A i, j \in GroupWrites(last.trace, k) :
      SpanOf(last.trace, i) = SpanOf(last.trace, j)

\* C12 as amended: within one attempt a slot is written by the successful
\* executions of the group node that owns it and by nothing else, and each
\* of them overwrites it: at any point the slot holds the span of the latest
\* one, and is absent if there was none.  The table of an attempt starts with
\* one absent slot whatever earlier attempts wrote, and the table findMatch
\* hands back is that of the successful attempt with slot 0 filled in.
C12_SlotHoldsLatestWrite ==
  /\ \A k \in 0..(Len(last.caps) - 1) :
       LET W == GroupWrites(last.trace, k)
       IN last.caps[k + 1] = IF W = {} THEN nullopt ELSE SpanOf(last.trace, Max(W))
  /\ \A j \in 1..Len(last.trace) :
       (last.trace[j].ev = "ret" /\ last.trace[j].kind = "Group" /\ last.trace[j].ok)
         => NodeAt(last.trace[j].path).n < Len(last.caps)
  /\ (pc = "found") =>
       /\ Len(captures) = Len(last.caps)
       /\ \A k \in 1..(Len(captures) - 1) : captures[k + 1] = last.caps[k + 1]
       /\ captures[1] = IF last.caps[1] = nullopt
                        THEN CaptureGroup(result, last.pos) ELSE last.caps[1]

\* "(a)*" on "aa": the group has run twice in the attempt at offset 0, has
\* written [0,1) and then [1,2), and the table handed back holds [1,2)
C12_Witness ==
  /\ pc = "found" /\ pattern = PatGroupStar /\ text = TextAA /\ result = 0
  /\ \E g \in Groups(ast) :
       /\ Cardinality(GroupWrites(last.trace, g.node.n)) = 2
       /\ \E i, j \in GroupWrites(last.trace, g.node.n) :
            /\ i < j
            /\ SpanOf(last.trace, i) = CaptureGroup(0, 1)
            /\ SpanOf(last.trace, j) = CaptureGroup(1, 2)
       /\ captures[g.node.n + 1] = CaptureGroup(1, 2)

----------------------------------------------------------------------------

\* C13: findMatch comes back from every attempt: no star node repeats for
\* ever, also when its inner node succeeds without consuming a character.
\* Attempts that call a null child are left out (they are the fault of C3).
C13_FindMatchTerminates == ~ub => (pc # "hang" /\ last.st # "hang")

====
